---- MODULE Spec2Model ----
(***************************************************************************)
(* Model of taotie: an interactive dataset-exploration shell.  A REPL      *)
(* caller submits commands over a queue to one worker thread, which owns   *)
(* the engine session and answers each request on its own one-shot         *)
(* channel.  The describe command builds a statistical summary of a        *)
(* dataset with DataFrameDescriber (src/backend/describe.rs).              *)
(***************************************************************************)
EXTENDS Integers, Sequences, FiniteSets, TLC

(***************************************************************************)
(* Bounds of the model.                                                    *)
(***************************************************************************)
MaxCols == 2
MaxRows == 2

(***************************************************************************)
(* Arrow data types.  DataTypes is the sample of declared column types:    *)
(* one numeric, one temporal, one list-like, and three that take the       *)
(* "anything else" rule (string, boolean, binary).                         *)
(***************************************************************************)
NumericTypes == {"Int8", "Int16", "Int32", "Int64", "UInt8", "UInt16", "UInt32",
                 "UInt64", "Float16", "Float32", "Float64", "Decimal128", "Decimal256"}

TemporalTypes == {"Date32", "Date64", "Time32", "Time64", "Timestamp", "Duration", "Interval"}

DataTypes == {"Int32", "Timestamp", "List", "Utf8", "Boolean", "Binary"}

is_numeric(dt) == dt \in NumericTypes

is_temporal(dt) == dt \in TemporalTypes

(***************************************************************************)
(* Strings that are compared by order are sequences of character codes.    *)
(***************************************************************************)
Digit(d) == 48 + d

RECURSIVE Decimal(_)
Decimal(n) == IF n < 10 THEN <<Digit(n)>> ELSE Decimal(n \div 10) \o <<Digit(n % 10)>>

ChTrue == <<116, 114, 117, 101>>

ChFalse == <<102, 97, 108, 115, 101>>

(***************************************************************************)
(* DescribeMethod and the catalog built by try_new.                        *)
(***************************************************************************)
Method(kind, p) == [kind |-> kind, p |-> p]

methods == << Method("Total", 0), Method("NullTotal", 0), Method("Mean", 0),
              Method("Stddev", 0), Method("Min", 0), Method("Max", 0),
              Method("Median", 0), Method("Percentile", 50), Method("Percentile", 75),
              Method("Percentile", 90), Method("Percentile", 95), Method("Percentile", 99) >>

\* impl Display for DescribeMethod
to_string(m) ==
    CASE m.kind = "Total"      -> <<116, 111, 116, 97, 108>>
      [] m.kind = "NullTotal"  -> <<110, 117, 108, 108, 95, 116, 111, 116, 97, 108>>
      [] m.kind = "Mean"       -> <<109, 101, 97, 110>>
      [] m.kind = "Stddev"     -> <<115, 116, 100, 100, 101, 118>>
      [] m.kind = "Min"        -> <<109, 105, 110>>
      [] m.kind = "Max"        -> <<109, 97, 120>>
      [] m.kind = "Median"     -> <<109, 101, 100, 105, 97, 110>>
      [] m.kind = "Percentile" ->
            <<112, 101, 114, 99, 101, 110, 116, 105, 108, 101, 95>> \o Decimal(m.p)

(***************************************************************************)
(* Datasets.  A dataset has an ordered list of named, typed fields and,    *)
(* per column, one cell per row.  The value stored in row i of a column    *)
(* is fixed by the column's type (RawValue); which cells are null is free. *)
(***************************************************************************)
ColNames == <<"b", "a", "c", "d">>

RawValue(dt, i) ==
    CASE dt = "Int32"     -> <<i>>
      [] dt = "Timestamp" -> <<10 * i>>
      [] dt = "List"      -> [j \in 1..(i - 1) |-> j]
      [] dt = "Boolean"   -> <<i % 2>>
      [] dt = "Binary"    -> [j \in 1..i |-> 200 + j]
      [] dt = "Utf8"      -> [j \in 1..i |-> 97]
      [] OTHER            -> [j \in 1..(i + 1) |-> 98]

Cell(isNull, val) == [isNull |-> isNull, val |-> val]

Column(dt, mask) ==
    [i \in 1..Len(mask) |-> IF mask[i] THEN Cell(TRUE, <<>>) ELSE Cell(FALSE, RawValue(dt, i))]

Field(name, dt) == [name |-> name, data_type |-> dt]

DataFrame(fields, columns) == [fields |-> fields, columns |-> columns]

\* the dataset whose i-th column has type ts[i] and null mask ms[i]
Dataset(ts, ms) ==
    DataFrame([i \in 1..Len(ts) |-> Field(ColNames[i], ts[i])],
              [i \in 1..Len(ts) |-> Column(ts[i], ms[i])])

(***************************************************************************)
(* The engine's scalar functions used by the normalization in try_new.     *)
(* Each propagates null.  A normalized cell is a nullable number.          *)
(***************************************************************************)
NullNum == [isNull |-> TRUE, num |-> 0]

Num(n) == [isNull |-> FALSE, num |-> n]

col(c) == IF c.isNull THEN NullNum ELSE Num(c.val[1])

cast_Float64(c) == IF c.isNull THEN NullNum ELSE Num(c.val[1])

cast_Utf8(dt, c) ==
    IF c.isNull THEN c
    ELSE IF dt = "Boolean" THEN Cell(FALSE, IF c.val[1] = 1 THEN ChTrue ELSE ChFalse)
    ELSE c

length(c) == IF c.isNull THEN NullNum ELSE Num(Len(c.val))

array_length(c) == IF c.isNull THEN NullNum ELSE Num(Len(c.val))

(***************************************************************************)
(* try_new: the expression chosen for a field, its result type, and the    *)
(* transformed data frame.  The match arms are tried in source order.      *)
(***************************************************************************)
\* mutant: the match has no arm for lists, which take the text rule
NormalizeRule_no_list(dt) ==
    IF is_temporal(dt) THEN "cast_float"
    ELSE IF is_numeric(dt) THEN "col"
    ELSE "length"

NormalizeRule(dt) ==
    IF is_temporal(dt) THEN "cast_float"
    ELSE IF is_numeric(dt) THEN "col"
    ELSE IF dt \in {"List", "LargeList"} THEN "array_length"
    ELSE "length"

NormalizeCell(dt, c) ==
    CASE NormalizeRule(dt) = "cast_float"   -> cast_Float64(c)
      [] NormalizeRule(dt) = "col"          -> col(c)
      [] NormalizeRule(dt) = "array_length" -> array_length(c)
      [] OTHER                              -> length(cast_Utf8(dt, c))

TransformedType(dt) ==
    CASE NormalizeRule(dt) = "cast_float"   -> "Float64"
      [] NormalizeRule(dt) = "col"          -> dt
      [] NormalizeRule(dt) = "array_length" -> "UInt64"
      [] OTHER                              -> "Int32"

transformed(df) ==
    DataFrame([i \in 1..Len(df.fields) |->
                  Field(df.fields[i].name, TransformedType(df.fields[i].data_type))],
              [i \in 1..Len(df.fields) |->
                  [r \in 1..Len(df.columns[i]) |->
                      NormalizeCell(df.fields[i].data_type, df.columns[i][r])]])

(***************************************************************************)
(* The engine's aggregate functions over one normalized column.  A cell of *)
(* a result holds the aggregate's name, its non-null inputs xs and, where  *)
(* the value is computed here, the value a/b.  count, the sum of the null  *)
(* flags, min, max and avg are computed; stddev, median and the            *)
(* approximate percentile are kept as the aggregate applied to xs.         *)
(***************************************************************************)
StatCell(tag, fn, p, xs, a, b) == [tag |-> tag, fn |-> fn, p |-> p, xs |-> xs, a |-> a, b |-> b]

RECURSIVE NonNull(_)
NonNull(column) ==
    IF column = <<>> THEN <<>>
    ELSE IF Head(column).isNull THEN NonNull(Tail(column))
    ELSE <<Head(column).num>> \o NonNull(Tail(column))

RECURSIVE SumSeq(_)
SumSeq(xs) == IF xs = <<>> THEN 0 ELSE Head(xs) + SumSeq(Tail(xs))

MinSeq(xs) == CHOOSE x \in {xs[i] : i \in 1..Len(xs)} : \A j \in 1..Len(xs) : x <= xs[j]

MaxSeq(xs) == CHOOSE x \in {xs[i] : i \in 1..Len(xs)} : \A j \in 1..Len(xs) : x >= xs[j]

SqlNull(fn, p, xs) == StatCell("sqlnull", fn, p, xs, 0, 1)

count(column) == StatCell("num", "count", 0, NonNull(column), Len(NonNull(column)), 1)

\* sum(case(is_null(col)).when(true, 1).otherwise(0)): the sum of no rows is NULL
sum_case_is_null(column) ==
    IF column = <<>> THEN SqlNull("sum", 0, <<>>)
    ELSE StatCell("num", "sum", 0, NonNull(column), Len(column) - Len(NonNull(column)), 1)

avg(column) ==
    LET xs == NonNull(column)
    IN  IF xs = <<>> THEN SqlNull("avg", 0, xs)
        ELSE StatCell("num", "avg", 0, xs, SumSeq(xs), Len(xs))

min(column) ==
    LET xs == NonNull(column)
    IN  IF xs = <<>> THEN SqlNull("min", 0, xs) ELSE StatCell("num", "min", 0, xs, MinSeq(xs), 1)

max(column) ==
    LET xs == NonNull(column)
    IN  IF xs = <<>> THEN SqlNull("max", 0, xs) ELSE StatCell("num", "max", 0, xs, MaxSeq(xs), 1)

stddev(column) ==
    LET xs == NonNull(column)
    IN  IF Len(xs) < 2 THEN SqlNull("stddev", 0, xs) ELSE StatCell("num", "stddev", 0, xs, 0, 1)

median(column) ==
    LET xs == NonNull(column)
    IN  IF xs = <<>> THEN SqlNull("median", 0, xs) ELSE StatCell("num", "median", 0, xs, 0, 1)

approx_percentile_cont(column, p) ==
    LET xs == NonNull(column)
    IN  IF xs = <<>> THEN SqlNull("approx_percentile_cont", p, xs)
        ELSE StatCell("num", "approx_percentile_cont", p, xs, 0, 1)

(***************************************************************************)
(* Results of fallible calls.                                              *)
(***************************************************************************)
NoTable == [fields |-> <<>>, rows |-> <<>>]

Ok(v) == [status |-> "ok", value |-> v, err |-> "none"]

Err(e) == [status |-> "err", value |-> NoTable, err |-> e]

Panic(e) == [status |-> "panic", value |-> NoTable, err |-> e]

NoAggregateExpr == "Error during planning: Aggregate requires at least one grouping or aggregate expression"

EngineError == "engine error"

(***************************************************************************)
(* Engine faults.  A call into the engine can be rejected for reasons the  *)
(* describer does not control; which call of a describe is rejected, if    *)
(* any, is an input: the normalizing select of try_new, the aggregate of   *)
(* the k-th method (the first, a middle one or the last), the select of    *)
(* cast_down, or the final collect.                                        *)
(***************************************************************************)
Fault(stage, k) == [stage |-> stage, k |-> k]

NoFault == Fault("none", 0)

FaultMethods == {1, 5, Len(methods)}

DescribeFaults ==
    {NoFault, Fault("select", 0), Fault("cast_down", 0)}
        \cup {Fault("aggregate", k) : k \in FaultMethods}

Faults == DescribeFaults \cup {Fault("collect", 0)}

(***************************************************************************)
(* Engine relational operations on data frames.  A result table has named, *)
(* typed fields and rows of cells.                                         *)
(***************************************************************************)
Table(fields, rows) == [fields |-> fields, rows |-> rows]

Names(fields) == [i \in 1..Len(fields) |-> fields[i].name]

HasField(fields, name) == \E i \in 1..Len(fields) : fields[i].name = name

IndexOf(fields, name) == CHOOSE i \in 1..Len(fields) : fields[i].name = name

Distinct(names) == \A i, j \in 1..Len(names) : names[i] = names[j] => i = j

\* DataFrame::aggregate with an empty grouping set: one row, one cell per
\* aggregate expression; rejected when there is no aggregate expression
aggregate(aggr_expr, rejected) ==
    IF aggr_expr = <<>> THEN Err(NoAggregateExpr)
    ELSE IF rejected THEN Err(EngineError)
    ELSE Ok(Table([i \in 1..Len(aggr_expr) |-> Field(aggr_expr[i].alias, aggr_expr[i].data_type)],
                  << [i \in 1..Len(aggr_expr) |-> aggr_expr[i].value] >>))

\* the result type of an aggregate function on a column of type dt
AggType(fn, dt) ==
    IF fn \in {"count", "sum"} THEN "Int64"
    ELSE IF fn \in {"avg", "stddev"} THEN "Float64"
    ELSE dt

\* DataFrame::union: by position, the left names, a common type per column
UnionType(a, b) == IF a = b THEN a ELSE "Float64"

union(left, right) ==
    IF Len(left.fields) # Len(right.fields) THEN Err(EngineError)
    ELSE Ok(Table([i \in 1..Len(left.fields) |->
                      Field(left.fields[i].name,
                            UnionType(left.fields[i].data_type, right.fields[i].data_type))],
                  left.rows \o right.rows))

(***************************************************************************)
(* describe_method!: one aggregate per field of the transformed frame      *)
(* whose type is numeric, aliased to the field's name.                     *)
(***************************************************************************)
Indices(n) == [i \in 1..n |-> i]

AggrExpr(alias, dt, value) == [alias |-> alias, data_type |-> dt, value |-> value]

\* mutant: the filter keeps floating-point columns only
describe_method_filter_float(f) == f.data_type = "Float64"

describe_method_filter(f) == is_numeric(f.data_type)

\* $method(col): the aggregate function the macro is instantiated with
method_expr(fn, column) ==
    CASE fn = "count"  -> count(column)
      [] fn = "avg"    -> avg(column)
      [] fn = "stddev" -> stddev(column)
      [] fn = "min"    -> min(column)
      [] fn = "max"    -> max(column)
      [] fn = "median" -> median(column)

describe_method(df, fn, rejected) ==
    LET sel == SelectSeq(Indices(Len(df.fields)), LAMBDA i : describe_method_filter(df.fields[i]))
    IN  aggregate([j \in 1..Len(sel) |->
                      AggrExpr(df.fields[sel[j]].name,
                               AggType(fn, df.fields[sel[j]].data_type),
                               method_expr(fn, df.columns[IndexOf(df.fields, df.fields[sel[j]].name)]))],
                  rejected)

total(df, rejected) == describe_method(df, "count", rejected)

mean(df, rejected) == describe_method(df, "avg", rejected)

std_div(df, rejected) == describe_method(df, "stddev", rejected)

minimum(df, rejected) == describe_method(df, "min", rejected)

maximum(df, rejected) == describe_method(df, "max", rejected)

med(df, rejected) == describe_method(df, "median", rejected)

\* mutant: the null counts are listed from the last field to the first
null_total_reversed(df, rejected) ==
    aggregate([i \in 1..Len(df.fields) |->
                  AggrExpr(df.fields[Len(df.fields) + 1 - i].name,
                           AggType("sum", df.fields[Len(df.fields) + 1 - i].data_type),
                           sum_case_is_null(df.columns[Len(df.fields) + 1 - i]))],
              rejected)

null_total(df, rejected) ==
    aggregate([i \in 1..Len(df.fields) |->
                  AggrExpr(df.fields[i].name, AggType("sum", df.fields[i].data_type),
                           sum_case_is_null(df.columns[IndexOf(df.fields, df.fields[i].name)]))],
              rejected)

percentile(df, p, rejected) ==
    aggregate([i \in 1..Len(df.fields) |->
                  AggrExpr(df.fields[i].name,
                           AggType("approx_percentile_cont", df.fields[i].data_type),
                           approx_percentile_cont(df.columns[IndexOf(df.fields, df.fields[i].name)], p))],
              rejected)

(***************************************************************************)
(* do_describe: fold over the methods; every engine result is unwrapped,   *)
(* so a rejected call panics.  Each one-row result gets the literal label  *)
(* as its first column and is appended to the accumulated frame.           *)
(***************************************************************************)
None == [some |-> FALSE, table |-> NoTable]

Some(t) == [some |-> TRUE, table |-> t]

stat(method, df, rejected) ==
    CASE method.kind = "Total"      -> total(df, rejected)
      [] method.kind = "NullTotal"  -> null_total(df, rejected)
      [] method.kind = "Mean"       -> mean(df, rejected)
      [] method.kind = "Stddev"     -> std_div(df, rejected)
      [] method.kind = "Min"        -> minimum(df, rejected)
      [] method.kind = "Max"        -> maximum(df, rejected)
      [] method.kind = "Median"     -> med(df, rejected)
      [] method.kind = "Percentile" -> percentile(df, method.p, rejected)

lit(chars) == StatCell("str", "lit", 0, chars, 0, 1)

\* stat_df.select(lit(label).alias("describe"), col(f) for every field f)
select_describe(label, stat_df) ==
    IF HasField(stat_df.fields, "describe") THEN Err(EngineError)
    ELSE Ok(Table(<<Field("describe", "Utf8")>> \o stat_df.fields,
                  [r \in 1..Len(stat_df.rows) |-> <<lit(label)>> \o stat_df.rows[r]]))

\* Result::unwrap
unwrap(r) == IF r.status = "ok" THEN r ELSE Panic(r.err)

\* stat_df.select(select_expr).unwrap() on the unwrapped statistic
labelled(label, stat_df) ==
    IF stat_df.status = "ok" THEN unwrap(select_describe(label, stat_df.value)) ELSE stat_df

\* match acc { Some(acc) => Some(acc.union(stat_df).unwrap()), None => Some(stat_df) }
accumulate(acc, stat_df) ==
    IF stat_df.status = "ok" /\ acc.some THEN unwrap(union(acc.table, stat_df.value))
    ELSE stat_df

\* the closure of the fold, applied to the k-th method
fold_step(df, fault, k, acc) ==
    accumulate(acc, labelled(to_string(methods[k]),
                             unwrap(stat(methods[k], df, fault = Fault("aggregate", k)))))

RECURSIVE do_describe_fold(_, _, _, _)
fold_continue(df, fault, k, next) ==
    IF next.status = "ok" THEN do_describe_fold(df, fault, k + 1, Some(next.value)) ELSE next

do_describe_fold(df, fault, k, acc) ==
    IF k > Len(methods) THEN
        IF acc.some THEN Ok(acc.table) ELSE Err("No statistics found")
    ELSE fold_continue(df, fault, k, fold_step(df, fault, k, acc))

do_describe(df, fault) == do_describe_fold(df, fault, 1, None)

(***************************************************************************)
(* cast_down: select "describe" and the original fields by name, with the  *)
(* display cast chosen from the original type, then sort by the label.     *)
(***************************************************************************)
RECURSIVE LexLess(_, _)
LexLess(a, b) ==
    IF b = <<>> THEN FALSE
    ELSE IF a = <<>> THEN TRUE
    ELSE IF a[1] # b[1] THEN a[1] < b[1]
    ELSE LexLess(Tail(a), Tail(b))

SortKey(row) == row[1].xs

RECURSIVE InsertRow(_, _)
InsertRow(row, sorted) ==
    IF sorted = <<>> THEN <<row>>
    ELSE IF LexLess(SortKey(row), SortKey(Head(sorted))) THEN <<row>> \o sorted
    ELSE <<Head(sorted)>> \o InsertRow(row, Tail(sorted))

RECURSIVE SortRows(_)
SortRows(rows) == IF rows = <<>> THEN <<>> ELSE InsertRow(Head(rows), SortRows(Tail(rows)))

\* mutant: the final sort is left out
sort_skipped(rows) == rows

\* DataFrame::sort by col("describe"), ascending
sort(rows) == SortRows(rows)

\* mutant: a list column is passed through like any other column
CastDownType_list_kept(dt, current) == IF is_temporal(dt) THEN dt ELSE current

CastDownType(dt, current) ==
    IF is_temporal(dt) THEN dt
    ELSE IF dt \in {"List", "LargeList"} THEN "Int32"
    ELSE current

\* mutant: the describe field is put after the original fields
cast_down_fields_describe_last(original) == original.fields \o <<Field("describe", "Utf8")>>

cast_down_fields(original) == <<Field("describe", "Utf8")>> \o original.fields

cast_down(df, original, rejected) ==
    LET fields == cast_down_fields(original)
    IN  IF rejected \/ ~Distinct(Names(fields))
           \/ \E i \in 1..Len(fields) : ~HasField(df.fields, fields[i].name)
        THEN Err(EngineError)
        ELSE Ok(Table([i \in 1..Len(fields) |->
                          Field(fields[i].name,
                                CastDownType(fields[i].data_type,
                                             df.fields[IndexOf(df.fields, fields[i].name)].data_type))],
                      sort([r \in 1..Len(df.rows) |->
                               [i \in 1..Len(fields) |->
                                   df.rows[r][IndexOf(df.fields, fields[i].name)]]])))

(***************************************************************************)
(* DataFrameDescriber::try_new followed by describe, as called by          *)
(* DatafusionBackend::describe on the frame of SELECT * FROM name.         *)
(***************************************************************************)
try_new(df, fault) ==
    IF fault.stage = "select" THEN Err(EngineError) ELSE Ok(transformed(df))

\* let df = self.do_describe().await?; self.cast_down(df)
describe_transformed(describer, original, fault) ==
    IF describer.status = "ok" THEN do_describe(describer.value, fault) ELSE describer

describe_cast_down(stats, original, fault) ==
    IF stats.status = "ok" THEN cast_down(stats.value, original, fault.stage = "cast_down")
    ELSE stats

describe(df, fault) ==
    describe_cast_down(describe_transformed(try_new(df, fault), df, fault), df, fault)

(***************************************************************************)
(* Commands of the shell (ReplCommands) and the sample of their arguments. *)
(***************************************************************************)
MaxReqs == 3

MaxClientReqs == 1

TableNameSeq == <<"t", "u">>

TableNames == {TableNameSeq[i] : i \in 1..Len(TableNameSeq)}

\* struct FileOpts
FileOpts(filename, extension, compression) ==
    [filename |-> filename, extension |-> extension, compression |-> compression]

NoFileOpts == FileOpts("", "", "UNCOMPRESSED")

\* enum DatasetConn: Postgres(String), Parquet(String), Csv(FileOpts), Json(FileOpts)
FileConn(kind, opts) == [kind |-> kind, path |-> opts.filename, opts |-> opts]

DatasetConn(kind, path) == [kind |-> kind, path |-> path, opts |-> NoFileOpts]

NoConn == DatasetConn("none", "")

(***************************************************************************)
(* parse_dataset_conn, the value parser of the connect command's           *)
(* connection string, on strings as the code sees them.                    *)
(***************************************************************************)
starts_with(s, prefix) == Len(s) >= Len(prefix) /\ SubSeq(s, 1, Len(prefix)) = prefix

ends_with(s, suffix) ==
    Len(s) >= Len(suffix) /\ SubSeq(s, Len(s) - Len(suffix) + 1, Len(s)) = suffix

\* the parts of s between the dots, from position start on, scanning from i
RECURSIVE split_from(_, _, _)
split_from(s, start, i) ==
    IF i > Len(s) THEN <<SubSeq(s, start, Len(s))>>
    ELSE IF SubSeq(s, i, i) = "." THEN <<SubSeq(s, start, i - 1)>> \o split_from(s, i + 1, i + 1)
    ELSE split_from(s, start, i + 1)

\* con_str.split('.')
split(s) == split_from(s, 1, 1)

\* parts.into_iter().skip(1).take(len - 1), then next() and next()
file_type(parts) == IF Len(parts) >= 2 THEN [some |-> TRUE, v |-> parts[2]] ELSE [some |-> FALSE, v |-> ""]

file_compression(parts) ==
    IF Len(parts) >= 3 THEN [some |-> TRUE, v |-> parts[3]] ELSE [some |-> FALSE, v |-> ""]

CompressionNames == {"gz", "bz2", "xz", "zstd"}

FileCompressionType(v) ==
    CASE v = "gz"   -> "GZIP"
      [] v = "bz2"  -> "BZIP2"
      [] v = "xz"   -> "XZ"
      [] v = "zstd" -> "ZSTD"

JsonTypes == {"json", "ndjson", "jsonl"}

\* match r#type { "csv" => Csv, "json" | "ndjson" | "jsonl" => Json, _ => Err }
conn_of_type(type, opts, error) ==
    IF type = "csv" THEN Ok(FileConn("Csv", opts))
    ELSE IF type \in JsonTypes THEN Ok(FileConn("Json", opts))
    ELSE Err(error)

parse_parts(s, compression, type) ==
    IF compression.some /\ type.some THEN
        IF compression.v \notin CompressionNames
        THEN Err("Invalid compression type: " \o compression.v)
        ELSE conn_of_type(type.v, FileOpts(s, type.v, FileCompressionType(compression.v)),
                          "Invliad file extension: " \o type.v)
    ELSE IF type.some THEN
        conn_of_type(type.v, FileOpts(s, type.v, "UNCOMPRESSED"),
                     "Unsupported dataset connection: " \o s)
    ELSE Err("Unsupported dataset connection: " \o s)

parse_dataset_conn(s) ==
    IF starts_with(s, "postgres://") THEN Ok(DatasetConn("Postgres", s))
    ELSE IF ends_with(s, ".parquet") THEN Ok(DatasetConn("Parquet", s))
    ELSE parse_parts(s, file_compression(split(s)), file_type(split(s)))

Command(op, name, conn, size, query) ==
    [op |-> op, name |-> name, conn |-> conn, size |-> size, query |-> query]

ConnectOpts(conn, name) == Command("connect", name, conn, 0, "")

ListOpts == Command("list", "", NoConn, 0, "")

DescribeOpts(name) == Command("describe", name, NoConn, 0, "")

HeadOpts(name, size) == Command("head", name, NoConn, size, "")

SqlOpts(query) == Command("sql", "", NoConn, 0, query)

SchemaOpts(name) == Command("schema", name, NoConn, 0, "")

\* the files the connection strings of the sample point to
FileA == DataFrame(<<Field("b", "Int32"), Field("a", "Boolean")>>,
                   <<Column("Int32", <<FALSE, TRUE>>), Column("Boolean", <<FALSE, FALSE>>)>>)

FileB == DataFrame(<<Field("b", "Timestamp")>>, <<Column("Timestamp", <<TRUE, FALSE>>)>>)

Files == {"a.parquet", "b.csv"}

FileSystem(path) == IF path = "a.parquet" THEN FileA ELSE FileB

\* the connection strings typed at the prompt of the shell
ShellDescriptors == {"a.parquet", "b.csv", "missing.json", "postgres://h/db", "b.txt", "./b.csv"}

\* the connection strings given to the parser on its own
Stems == {"b", "./b", "b.v2"}

TypeSuffixes == {"", ".csv", ".json", ".ndjson", ".jsonl", ".txt", ".parquet"}

CompressionSuffixes == {"", ".gz", ".bz2", ".xz", ".zstd", ".zip"}

Descriptors ==
    {stem \o type \o compression :
        stem \in Stems, type \in TypeSuffixes, compression \in CompressionSuffixes}
        \cup {"postgres://h/db", "postgres://h/db.csv", "b.csv.gz.txt", "b.csv.txt"}

Accepted(descriptors) == {s \in descriptors : parse_dataset_conn(s).status = "ok"}

\* the DatasetConn values clap hands to the connect callback
Conns == {parse_dataset_conn(s).value : s \in Accepted(ShellDescriptors)}

Queries == {"SELECT * FROM t", "SELEC"}

Commands ==
    {ConnectOpts(c, "t") : c \in Conns}
        \cup {ListOpts}
        \cup {DescribeOpts(n) : n \in TableNames}
        \cup {HeadOpts(n, 10) : n \in TableNames}
        \cup {SchemaOpts(n) : n \in TableNames}
        \cup {SqlOpts(q) : q \in Queries}

(***************************************************************************)
(* The engine session (SessionContext): the relation registered under each *)
(* name, if any.                                                           *)
(***************************************************************************)
NoFrame == DataFrame(<<>>, <<>>)

Unregistered == [some |-> FALSE, df |-> NoFrame]

Registered(df) == [some |-> TRUE, df |-> df]

\* SessionContext::sql of SELECT * FROM name
select_all(session, name) ==
    IF name \in TableNames /\ session[name].some THEN Ok(session[name].df) ELSE Err(EngineError)

\* the table a query reads, or "" when the string does not parse
QueryTable(query) == IF query = "SELECT * FROM t" THEN "t" ELSE ""

(***************************************************************************)
(* CmdExecutor::execute for each command, on the worker's backend.  The    *)
(* result carries the session the command leaves behind.                   *)
(***************************************************************************)
Text(kind, name, table) == [kind |-> kind, name |-> name, table |-> table]

NoText == Text("none", "", NoTable)

Executed(status, text, err, session) ==
    [status |-> status, text |-> text, err |-> err, session |-> session]

\* ReplDisplay::display: collect and format
display(kind, name, table, fault, session) ==
    IF fault.stage = "collect" THEN Executed("err", NoText, EngineError, session)
    ELSE Executed("ok", Text(kind, name, table), "none", session)

NumRows(df) == IF df.columns = <<>> THEN 0 ELSE Len(df.columns[1])

FrameTable(df, size) ==
    LET m == IF NumRows(df) < size THEN NumRows(df) ELSE size
    IN  Table(df.fields, [r \in 1..m |-> [i \in 1..Len(df.fields) |-> df.columns[i][r]]])

\* DatafusionBackend::connect; registering a name that is taken either
\* replaces the relation or is rejected by the engine (input: replace)
connect(session, opts, replace) ==
    IF opts.conn.kind = "Postgres" THEN Executed("panic", NoText, "not yet implemented", session)
    ELSE IF opts.conn.path \notin Files \/ (session[opts.name].some /\ ~replace)
    THEN Executed("err", NoText, EngineError, session)
    ELSE Executed("ok", NoText, "none",
                  [session EXCEPT ![opts.name] = Registered(FileSystem(opts.conn.path))])

\* impl CmdExecutor for ConnectOpts
execute_connect(command, session, replace) ==
    LET r == connect(session, command, replace)
    IN  IF r.status = "ok"
        THEN Executed("ok", Text("Connected to dataset", command.name, NoTable), "none", r.session)
        ELSE r

\* Backend::describe: self.0.sql("select * from {name}"), then the describer
backend_describe(session, name, fault) ==
    LET df == select_all(session, name)
    IN  IF df.status = "ok" THEN describe(df.value, fault) ELSE df

\* mutant: describe registers the normalized frame under the dataset's name
execute_describe_registers(command, session, fault) ==
    LET r == backend_describe(session, command.name, fault)
    IN  IF r.status = "ok"
        THEN display("describe", command.name, r.value, fault,
                     [session EXCEPT ![command.name] = Registered(transformed(session[command.name].df))])
        ELSE Executed(r.status, NoText, r.err, session)

\* impl CmdExecutor for DescribeOpts
execute_describe(command, session, fault) ==
    LET r == backend_describe(session, command.name, fault)
    IN  IF r.status = "ok" THEN display("describe", command.name, r.value, fault, session)
        ELSE Executed(r.status, NoText, r.err, session)

\* impl CmdExecutor for HeadOpts
execute_head(command, session, fault) ==
    LET r == select_all(session, command.name)
    IN  IF r.status = "ok"
        THEN display("head", command.name, FrameTable(r.value, command.size), fault, session)
        ELSE Executed("err", NoText, r.err, session)

\* impl CmdExecutor for SchemaOpts
execute_schema(command, session, fault) ==
    LET r == select_all(session, command.name)
    IN  IF r.status = "ok"
        THEN display("schema", command.name, Table(r.value.fields, <<>>), fault, session)
        ELSE Executed("err", NoText, r.err, session)

\* impl CmdExecutor for SqlOpts
execute_sql(command, session, fault) ==
    LET r == select_all(session, QueryTable(command.query))
    IN  IF r.status = "ok"
        THEN display("sql", QueryTable(command.query), FrameTable(r.value, NumRows(r.value)),
                     fault, session)
        ELSE Executed("err", NoText, r.err, session)

\* impl CmdExecutor for ListOpts
execute_list(command, session, fault) ==
    display("list", "",
            Table(<<Field("table_name", "Utf8"), Field("table_type", "Utf8")>>,
                  LET names == SelectSeq(TableNameSeq, LAMBDA n : session[n].some)
                  IN  [i \in 1..Len(names) |-> <<names[i], "BASE TABLE">>]),
            fault, session)

\* enum_dispatch of CmdExecutor::execute over ReplCommands
execute(command, session, fault, replace) ==
    CASE command.op = "connect"  -> execute_connect(command, session, replace)
      [] command.op = "describe" -> execute_describe(command, session, fault)
      [] command.op = "head"     -> execute_head(command, session, fault)
      [] command.op = "schema"   -> execute_schema(command, session, fault)
      [] command.op = "sql"      -> execute_sql(command, session, fault)
      [] command.op = "list"     -> execute_list(command, session, fault)

(***************************************************************************)
(* State.                                                                  *)
(*   session    the worker's backend: name -> registered relation          *)
(*   queue      the crossbeam channel from callers to the worker           *)
(*   chan       per request id, its one-shot channel: the sender's and the *)
(*              receiver's state, the data sent and who holds the receiver *)
(*   repl       the REPL thread: at the prompt or blocked in send, the     *)
(*              command it last submitted and the answer it last got       *)
(*   worker     the ReplBackend thread: in recv, executing msg, or dead    *)
(*   process    "running", or why the process exited                       *)
(*   submitted, started, answered   request ids in the order they were     *)
(*              put on the queue, taken by the worker, and finished        *)
(*   nextId     the id of the next request                                 *)
(*   fault      the engine fault met by a describe on its own              *)
(*   described  per name, the summary tables describe has returned since   *)
(*              the relation under that name last changed, and their count *)
(*   input, output   the frame given to a describe on its own and its      *)
(*              result; the connection string given to a connect on its    *)
(*              own                                                        *)
(***************************************************************************)
VARIABLES session, queue, chan, repl, worker, process, submitted, started, answered,
          nextId, fault, described, input, output

vars == <<session, queue, chan, repl, worker, process, submitted, started, answered,
          nextId, fault, described, input, output>>

Ids == 1..MaxReqs

Chan(tx, rx, data, holder) == [tx |-> tx, rx |-> rx, data |-> data, holder |-> holder]

Unused == Chan("none", "none", NoText, "none")

ReplMsg(id, command) == [id |-> id, command |-> command]

NoMsg == ReplMsg(0, ListOpts)

Pending == [status |-> "pending", value |-> NoTable, err |-> "none"]

NoDescribed == [calls |-> 0, tables |-> {}]

SystemInit ==
    /\ session = [n \in TableNames |-> Unregistered]
    /\ queue = <<>>
    /\ chan = [i \in Ids |-> Unused]
    /\ repl = [pc |-> "prompt", id |-> 0, command |-> NoMsg.command, last |-> NoText]
    /\ worker = [pc |-> "recv", msg |-> NoMsg]
    /\ process = "running"
    /\ submitted = <<>>
    /\ started = <<>>
    /\ answered = <<>>
    /\ nextId = 1
    /\ fault = NoFault
    /\ described = [n \in TableNames |-> NoDescribed]

Init ==
    /\ SystemInit
    /\ input = NoFrame
    /\ output = Pending

\* mutant: send returns once the message is queued, without rx.recv()
ReplSend_unblocked(command) ==
    /\ process = "running"
    /\ repl.pc = "prompt"
    /\ nextId <= MaxReqs
    /\ IF worker.pc = "dead"
       THEN /\ process' = "exit: send failed"
            /\ UNCHANGED <<queue, chan, repl, submitted, nextId>>
       ELSE /\ queue' = Append(queue, ReplMsg(nextId, command))
            /\ chan' = [chan EXCEPT ![nextId] = Chan("held", "held", NoText, "repl")]
            /\ repl' = [pc |-> "prompt", id |-> nextId, command |-> command, last |-> NoText]
            /\ submitted' = Append(submitted, nextId)
            /\ nextId' = nextId + 1
            /\ UNCHANGED process
    /\ UNCHANGED <<session, worker, started, answered, fault, described, input, output>>

(***************************************************************************)
(* ReplContext::send, first half: put the message on the queue; exit when  *)
(* the worker's receiver is gone.  ReplMsg::new made the one-shot channel. *)
(***************************************************************************)
ReplSend(command) ==
    /\ process = "running"
    /\ repl.pc = "prompt"
    /\ nextId <= MaxReqs
    /\ IF worker.pc = "dead"
       THEN /\ process' = "exit: send failed"
            /\ UNCHANGED <<queue, chan, repl, submitted, nextId>>
       ELSE /\ queue' = Append(queue, ReplMsg(nextId, command))
            /\ chan' = [chan EXCEPT ![nextId] = Chan("held", "held", NoText, "repl")]
            /\ repl' = [pc |-> "waiting", id |-> nextId, command |-> command, last |-> NoText]
            /\ submitted' = Append(submitted, nextId)
            /\ nextId' = nextId + 1
            /\ UNCHANGED process
    /\ UNCHANGED <<session, worker, started, answered, fault, described, input, output>>

(***************************************************************************)
(* A connect line typed at the prompt: clap parses the connection string   *)
(* with parse_dataset_conn before the connect callback runs.  A string the *)
(* parser rejects is reported and the callback is not called; otherwise    *)
(* the callback sends ConnectOpts through ReplContext::send.               *)
(***************************************************************************)
ParseError(message) == Text("error", message, NoTable)

ReplReject(message) ==
    /\ process = "running"
    /\ repl.pc = "prompt"
    /\ repl' = [repl EXCEPT !.last = ParseError(message)]
    /\ UNCHANGED <<session, queue, chan, worker, process, submitted, started, answered, nextId,
                   fault, described, input, output>>

ReplParsed(conn, name) ==
    IF conn.status = "ok" THEN ReplSend(ConnectOpts(conn.value, name)) ELSE ReplReject(conn.err)

ReplConnect(s, name) == ReplParsed(parse_dataset_conn(s), name)

(***************************************************************************)
(* ReplContext::send, second half: rx.recv() returns the data once it is   *)
(* sent, or an error once the sender is dropped, and then the process      *)
(* exits.                                                                  *)
(***************************************************************************)
ReplRecv ==
    /\ process = "running"
    /\ repl.pc = "waiting"
    /\ chan[repl.id].tx \in {"sent", "dropped"}
    /\ IF chan[repl.id].tx = "sent"
       THEN /\ repl' = [pc |-> "prompt", id |-> 0, command |-> repl.command,
                            last |-> chan[repl.id].data]
            /\ chan' = [chan EXCEPT ![repl.id].rx = "done", ![repl.id].data = NoText]
            /\ UNCHANGED process
       ELSE /\ process' = "exit: receive failed"
            /\ UNCHANGED <<repl, chan>>
    /\ UNCHANGED <<session, queue, worker, submitted, started, answered, nextId, fault,
                   described, input, output>>

(***************************************************************************)
(* A client of the library that uses the Sender the context derefs to:     *)
(* it puts a message on the queue without waiting for the answer, and may  *)
(* drop the receiver it holds.                                             *)
(***************************************************************************)
SenderSend(command) ==
    /\ process = "running"
    /\ worker.pc # "dead"
    /\ nextId <= MaxReqs
    /\ Cardinality({i \in Ids : chan[i].holder = "client"}) < MaxClientReqs
    /\ queue' = Append(queue, ReplMsg(nextId, command))
    /\ chan' = [chan EXCEPT ![nextId] = Chan("held", "held", NoText, "client")]
    /\ submitted' = Append(submitted, nextId)
    /\ nextId' = nextId + 1
    /\ UNCHANGED <<session, repl, worker, process, started, answered, fault, described,
                   input, output>>

ReceiverDrop(id) ==
    /\ process = "running"
    /\ chan[id].holder = "client"
    /\ chan[id].rx = "held"
    /\ chan' = [chan EXCEPT ![id].rx = "dropped"]
    /\ UNCHANGED <<session, queue, repl, worker, process, submitted, started, answered,
                   nextId, fault, described, input, output>>

(***************************************************************************)
(* The worker loop of ReplContext::new: receiver.recv() takes the oldest   *)
(* message of the queue.                                                   *)
(***************************************************************************)
\* mutant: the worker takes the newest message of the queue
recv_newest(q) == [msg |-> q[Len(q)], rest |-> SubSeq(q, 1, Len(q) - 1)]

\* Receiver::recv
recv(q) == [msg |-> Head(q), rest |-> Tail(q)]

WorkerRecv ==
    /\ process = "running"
    /\ worker.pc = "recv"
    /\ queue # <<>>
    /\ worker' = [pc |-> "exec", msg |-> recv(queue).msg]
    /\ queue' = recv(queue).rest
    /\ started' = Append(started, recv(queue).msg.id)
    /\ UNCHANGED <<session, chan, repl, process, submitted, answered, nextId, fault,
                   described, input, output>>

(***************************************************************************)
(* The body of the loop: block_on(execute, then tx.send).  An error of     *)
(* either ends the process; a panic unwinds the worker thread, which drops *)
(* the message in hand, the queue's receiver and every queued message.     *)
(***************************************************************************)
FaultsOf(command) ==
    IF command.op = "describe" THEN Faults
    ELSE IF command.op = "connect" THEN {NoFault}
    ELSE {NoFault, Fault("collect", 0)}

Describing(desc, table) ==
    [calls |-> IF desc.calls < 2 THEN desc.calls + 1 ELSE 2, tables |-> desc.tables \cup {table}]

Record(desc, command, r) ==
    IF r.status # "ok" THEN desc
    ELSE IF command.op = "connect" THEN [desc EXCEPT ![command.name] = NoDescribed]
    ELSE IF command.op = "describe"
    THEN [desc EXCEPT ![command.name] = Describing(desc[command.name], r.text.table)]
    ELSE desc

\* mutant: the unwinding worker leaks the senders instead of dropping them
DropSenders_leaked(ch, ids) == ch

\* the unwinding thread drops the message in hand and the queued messages, and
\* with them their one-shot senders
DropSenders(ch, ids) ==
    [i \in Ids |-> IF i \in ids THEN [ch[i] EXCEPT !.tx = "dropped"] ELSE ch[i]]

\* mutant: every message carries the sender of the first one-shot channel
tx_shared(msg) == 1

\* ReplMsg.tx: the sender of the one-shot channel ReplMsg::new made for msg
tx(msg) == msg.id

\* mutant: a failed command is logged and the loop goes on to the next
\* message, the sender of the failed request kept alive
Complete_error_logged(msg, r) ==
    /\ session' = r.session
    /\ described' = Record(described, msg.command, r)
    /\ CASE r.status = "ok" /\ chan[msg.id].rx # "dropped" ->
              /\ chan' = [chan EXCEPT ![tx(msg)].tx = "sent", ![tx(msg)].data = r.text]
              /\ worker' = [pc |-> "recv", msg |-> NoMsg]
              /\ answered' = Append(answered, msg.id)
              /\ UNCHANGED <<queue, process>>
         [] r.status = "ok" /\ chan[msg.id].rx = "dropped" ->
              /\ process' = "exit: response send failed"
              /\ UNCHANGED <<queue, chan, worker, answered>>
         [] r.status = "err" ->
              /\ worker' = [pc |-> "recv", msg |-> NoMsg]
              /\ UNCHANGED <<queue, chan, process, answered>>
         [] r.status = "panic" ->
              /\ worker' = [pc |-> "dead", msg |-> NoMsg]
              /\ chan' = DropSenders(chan, {msg.id} \cup {queue[i].id : i \in 1..Len(queue)})
              /\ queue' = <<>>
              /\ UNCHANGED <<process, answered>>

\* what the loop body does with the result r of executing msg
Complete(msg, r) ==
    /\ session' = r.session
    /\ described' = Record(described, msg.command, r)
    /\ CASE r.status = "ok" /\ chan[msg.id].rx # "dropped" ->
              /\ chan' = [chan EXCEPT ![tx(msg)].tx = "sent", ![tx(msg)].data = r.text]
              /\ worker' = [pc |-> "recv", msg |-> NoMsg]
              /\ answered' = Append(answered, msg.id)
              /\ UNCHANGED <<queue, process>>
         [] r.status = "ok" /\ chan[msg.id].rx = "dropped" ->
              /\ process' = "exit: response send failed"
              /\ UNCHANGED <<queue, chan, worker, answered>>
         [] r.status = "err" ->
              /\ process' = "exit: command failed"
              /\ UNCHANGED <<queue, chan, worker, answered>>
         [] r.status = "panic" ->
              /\ worker' = [pc |-> "dead", msg |-> NoMsg]
              /\ chan' = DropSenders(chan, {msg.id} \cup {queue[i].id : i \in 1..Len(queue)})
              /\ queue' = <<>>
              /\ UNCHANGED <<process, answered>>

WorkerExecute(f, replace) ==
    /\ process = "running"
    /\ worker.pc = "exec"
    /\ f \in FaultsOf(worker.msg.command)
    /\ replace \/ worker.msg.command.op = "connect"
    /\ Complete(worker.msg, execute(worker.msg.command, session, f, replace))
    /\ UNCHANGED <<repl, submitted, started, nextId, fault, input, output>>

Next ==
    \/ \E s \in ShellDescriptors : ReplConnect(s, TableNameSeq[1])
    \/ \E c \in Commands : c.op # "connect" /\ ReplSend(c)
    \/ ReplRecv
    \/ \E c \in Commands : SenderSend(c)
    \/ \E id \in Ids : ReceiverDrop(id)
    \/ WorkerRecv
    \/ \E f \in Faults, replace \in BOOLEAN : WorkerExecute(f, replace)

Spec == Init /\ [][Next]_vars

(***************************************************************************)
(* The threads under fair scheduling: the worker thread takes a message    *)
(* that is queued and ends an execution it has begun, and a caller blocked *)
(* in rx.recv() is woken once its channel has data or has lost its sender. *)
(* execute is total, so the execution step is enabled exactly when the     *)
(* worker holds a message; its weak fairness is written with that state    *)
(* condition in the place of ENABLED.                                      *)
(***************************************************************************)
FairSpec ==
    /\ Spec
    /\ WF_vars(WorkerRecv)
    /\ \/ []<>~(process = "running" /\ worker.pc = "exec")
       \/ []<><<\E f \in Faults, replace \in BOOLEAN : WorkerExecute(f, replace)>>_vars
    /\ WF_vars(ReplRecv)

(***************************************************************************)
(* describe on its own: the frame is any dataset of the bounded universe,  *)
(* and one call of describe meets any one engine fault or none.            *)
(***************************************************************************)
DescribeInit ==
    /\ SystemInit
    /\ \E n \in 0..MaxCols, r \in 0..MaxRows :
          \E ts \in [1..n -> DataTypes], ms \in [1..n -> [1..r -> BOOLEAN]] :
             input = Dataset(ts, ms)
    /\ output = Pending

Describe(f) ==
    /\ output.status = "pending"
    /\ output' = describe(input, f)
    /\ fault' = f
    /\ UNCHANGED <<session, queue, chan, repl, worker, process, submitted, started, answered,
                   nextId, described, input>>

DescribeNext == \E f \in DescribeFaults : Describe(f)

SpecDescribe == DescribeInit /\ [][DescribeNext]_vars

(***************************************************************************)
(* The connect command on its own: the connection string is any string of  *)
(* the bounded universe, typed as the first line of the shell.             *)
(***************************************************************************)
ParseInit ==
    /\ SystemInit
    /\ input \in Descriptors
    /\ output = Pending

ParseConnect ==
    /\ nextId = 1
    /\ repl.last = NoText
    /\ ReplConnect(input, TableNameSeq[1])

ParseNext ==
    \/ ParseConnect
    \/ WorkerRecv
    \/ \E replace \in BOOLEAN : WorkerExecute(NoFault, replace)
    \/ ReplRecv

SpecParse == ParseInit /\ [][ParseNext]_vars

(***************************************************************************)
(* The interactive session alone: the REPL is the only caller, and every   *)
(* callback of callbacks_map issues its command through ReplContext::send. *)
(***************************************************************************)
ReplNext ==
    \/ \E s \in ShellDescriptors : ReplConnect(s, TableNameSeq[1])
    \/ \E c \in Commands : c.op # "connect" /\ ReplSend(c)
    \/ ReplRecv
    \/ WorkerRecv
    \/ \E f \in Faults, replace \in BOOLEAN : WorkerExecute(f, replace)

SpecRepl == Init /\ [][ReplNext]_vars

(***************************************************************************)
(* Reading a summary table.                                                *)
(***************************************************************************)
Returned == output.status = "ok"

SummaryTable == output.value

Labels(table) == [r \in 1..Len(table.rows) |-> table.rows[r][1].xs]

\* the cells of column name in the rows labelled with method m
CellsOf(table, m, name) ==
    { table.rows[r][IndexOf(table.fields, name)] :
        r \in {q \in 1..Len(table.rows) : table.rows[q][1].xs = to_string(m)} }

\* the placeholder string "null"
NullPlaceholder == lit(<<110, 117, 108, 108>>)

\* a cell that holds no computed statistic: the placeholder, or an engine NULL
NotComputed(cell) == cell = NullPlaceholder \/ cell.tag = "sqlnull"

ColumnIndexes == 1..Len(input.fields)

(***************************************************************************)
(* C1: when describe succeeds, the columns of the summary table are        *)
(* "describe" followed by the dataset's column names, each once and in the *)
(* dataset's order, whatever the declared types.                           *)
(***************************************************************************)
C1_ColumnsAreDescribeThenDataset ==
    Returned => Names(SummaryTable.fields) = <<"describe">> \o Names(input.fields)

C1_Witness ==
    /\ Returned
    /\ Len(input.fields) = 2
    /\ input.fields[1].data_type = "List"
    /\ input.fields[2].data_type = "Boolean"

(***************************************************************************)
(* C2: when describe succeeds, the summary table has 12 rows, one for each *)
(* method of the catalog and none twice, in ascending lexicographic order  *)
(* of the label: max, mean, median, min, null_total, percentile_50, 75,    *)
(* 90, 95, 99, stddev, total.                                              *)
(***************************************************************************)
LabelOrder ==
    << Method("Max", 0), Method("Mean", 0), Method("Median", 0), Method("Min", 0),
       Method("NullTotal", 0), Method("Percentile", 50), Method("Percentile", 75),
       Method("Percentile", 90), Method("Percentile", 95), Method("Percentile", 99),
       Method("Stddev", 0), Method("Total", 0) >>

C2_OneRowPerKindSortedByLabel ==
    Returned =>
        LET labels == Labels(SummaryTable)
        IN  /\ Len(labels) = 12
            /\ \A k \in 1..Len(methods) :
                  Cardinality({r \in 1..Len(labels) : labels[r] = to_string(methods[k])}) = 1
            /\ \A r \in 1..(Len(labels) - 1) : LexLess(labels[r], labels[r + 1])
            /\ labels = [r \in 1..12 |-> to_string(LabelOrder[r])]

C2_Witness ==
    /\ Returned
    /\ Len(SummaryTable.rows) = 12
    /\ Len(input.fields) = 2
    /\ NumRows(input) = 2

(***************************************************************************)
(* C3: for every column whose declared type is Boolean or Binary, the      *)
(* cells of the min row and of the max row are the placeholder "null":     *)
(* min and max are not computed for the column.  An engine NULL in the     *)
(* cell is taken as not computed as well.                                  *)
(***************************************************************************)
C3_MinMaxOfBooleanBinaryIsNull ==
    Returned =>
        \A i \in ColumnIndexes :
            input.fields[i].data_type \in {"Boolean", "Binary"} =>
                \A m \in {Method("Min", 0), Method("Max", 0)} :
                    \A c \in CellsOf(SummaryTable, m, input.fields[i].name) : NotComputed(c)

(***************************************************************************)
(* C4: for every column whose declared type is not numeric, the cells of   *)
(* the mean, stddev and median rows are the placeholder "null": the three  *)
(* statistics are computed for numeric columns only.  An engine NULL in    *)
(* the cell is taken as not computed as well.                              *)
(***************************************************************************)
C4_MeanStddevMedianOfNonNumericIsNull ==
    Returned =>
        \A i \in ColumnIndexes :
            ~is_numeric(input.fields[i].data_type) =>
                \A m \in {Method("Mean", 0), Method("Stddev", 0), Method("Median", 0)} :
                    \A c \in CellsOf(SummaryTable, m, input.fields[i].name) : NotComputed(c)

(***************************************************************************)
(* C5: for every column, of any declared type, with k non-null and m null  *)
(* values, the total row holds k and the null_total row holds m.           *)
(***************************************************************************)
NonNullCount(column) == Cardinality({r \in 1..Len(column) : ~column[r].isNull})

NullCount(column) == Cardinality({r \in 1..Len(column) : column[r].isNull})

IsNumber(cell, n) == cell.tag = "num" /\ cell.a = n /\ cell.b = 1

C5_TotalAndNullTotalCountCells ==
    Returned =>
        \A i \in ColumnIndexes :
            /\ \A c \in CellsOf(SummaryTable, Method("Total", 0), input.fields[i].name) :
                  IsNumber(c, NonNullCount(input.columns[i]))
            /\ \A c \in CellsOf(SummaryTable, Method("NullTotal", 0), input.fields[i].name) :
                  IsNumber(c, NullCount(input.columns[i]))

(***************************************************************************)
(* C7: when the engine rejects the aggregate query of one method with an   *)
(* error other than the tolerated one, describe returns an error value to  *)
(* its caller and no summary table.                                        *)
(***************************************************************************)
AggregateRejected ==
    /\ output.status # "pending"
    /\ fault.stage = "aggregate"
    /\ stat(methods[fault.k], transformed(input), TRUE).err = EngineError

C7_RejectedAggregateReturnsError ==
    AggregateRejected => output.status = "err" /\ output.value = NoTable

(***************************************************************************)
(* C8: when the engine rejects the aggregate query of a method with        *)
(* "Aggregate requires at least one grouping or aggregate expression",     *)
(* describe still succeeds and the method's row is present, with the       *)
(* placeholder "null" in its cells.                                        *)
(***************************************************************************)
NoAggregateMethods ==
    {k \in 1..Len(methods) : stat(methods[k], transformed(input), FALSE).err = NoAggregateExpr}

C8_NoAggregateExpressionIsTolerated ==
    (output.status # "pending" /\ fault = NoFault /\ NoAggregateMethods # {}) =>
        /\ Returned
        /\ \A k \in NoAggregateMethods :
              /\ to_string(methods[k]) \in {Labels(SummaryTable)[r] : r \in 1..Len(SummaryTable.rows)}
              /\ \A i \in ColumnIndexes :
                    CellsOf(SummaryTable, methods[k], input.fields[i].name) = {NullPlaceholder}

(***************************************************************************)
(* C6: two describe calls on the same dataset with no dataset-changing     *)
(* command between them return the same summary table, and a describe      *)
(* changes neither the dataset nor the set of registered datasets.         *)
(***************************************************************************)
DescribeExecutes ==
    /\ worker.pc = "exec"
    /\ worker.msg.command.op = "describe"
    /\ <<worker, process>>' # <<worker, process>>

C6_DescribeIdempotent ==
    /\ [](\A n \in TableNames : Cardinality(described[n].tables) <= 1)
    /\ [][DescribeExecutes => session' = session]_vars

C6_Witness == \E n \in TableNames : described[n].calls = 2 /\ session[n].some

(***************************************************************************)
(* C9: a command that fails with an engine error is reported and the       *)
(* worker keeps serving; the process exits only when the request/response  *)
(* channel itself fails (a channel send or receive failure).               *)
(***************************************************************************)
ChannelFailures == {"exit: send failed", "exit: receive failed", "exit: response send failed"}

C9_ExitOnlyOnChannelFailure == process # "running" => process \in ChannelFailures

(***************************************************************************)
(* C10: the worker takes requests in the order they were submitted; the    *)
(* command of a request has completed and its response has been sent       *)
(* before the worker takes the next one; no two commands execute at once,  *)
(* and only a step of the worker executing a command changes the session.  *)
(***************************************************************************)
Front(seq) == SubSeq(seq, 1, Len(seq) - 1)

InSubmissionOrder == started = SubSeq(submitted, 1, Len(started))

OneAtATime ==
    /\ answered = IF worker.pc = "exec" \/ worker.pc = "dead" THEN Front(started) ELSE started
    /\ \A i \in 1..Len(answered) : chan[answered[i]].tx = "sent"
    /\ worker.pc = "exec" => worker.msg.id = started[Len(started)]

C10_OneRequestAtATimeInOrder ==
    /\ [](InSubmissionOrder /\ OneAtATime)
    /\ [][session' # session => worker.pc = "exec" /\ <<worker, process>>' # <<worker, process>>]_vars

C10_Witness == Len(queue) = 2 /\ Len(answered) = 1 /\ worker.pc = "recv"

(***************************************************************************)
(* Reading the one-shot channels.                                          *)
(***************************************************************************)
\* the text that answers command, whatever the session held
AnswersCommand(command, text) ==
    /\ text.kind = (IF command.op = "connect" THEN "Connected to dataset" ELSE command.op)
    /\ text.name = (IF command.op = "sql" THEN QueryTable(command.query) ELSE command.name)

\* the texts an execution of command on the current session can return
ResultsOf(command) ==
    {execute(command, session, f, replace).text : f \in Faults, replace \in BOOLEAN}

\* a response is put on channel id in this step
Responds(id) == chan[id].tx # "sent" /\ chan'[id].tx = "sent"

\* the worker finishes the request it executes with a result in this step
Finishes == worker.pc = "exec" /\ worker'.pc = "recv"

\* the REPL returns from ReplContext::send with a string in this step
Resumes == repl.pc = "waiting" /\ repl'.pc = "prompt"

(***************************************************************************)
(* C11: every request has its own one-shot channel.  A response is put on  *)
(* a channel only by the worker finishing that channel's request, it is a  *)
(* result of executing that request's command, and it is put there once;   *)
(* a request the worker finishes is answered on its own channel; the REPL  *)
(* resumes only once the response is there, with the response that answers *)
(* the command it submitted.                                               *)
(***************************************************************************)
C11_OwnOneShotResponse ==
    /\ [][\A id \in Ids :
             /\ Responds(id) =>
                   /\ Finishes /\ worker.msg.id = id /\ chan[id].tx = "held"
                   /\ chan'[id].data \in ResultsOf(worker.msg.command)
             /\ chan[id].tx = "sent" => chan'[id].tx = "sent"
             /\ (chan'[id].data # chan[id].data /\ chan'[id].data # NoText) => Responds(id)]_vars
    /\ [][Finishes => Responds(worker.msg.id)]_vars
    /\ [][Resumes =>
             /\ chan[repl.id].tx = "sent"
             /\ repl'.last = chan[repl.id].data
             /\ AnswersCommand(repl.command, repl'.last)]_vars

\* the REPL is back at the prompt with the answer to its second request, a
\* describe that followed a connect
C11_Witness ==
    /\ repl.pc = "prompt"
    /\ repl.command.op = "describe"
    /\ repl.last.kind = "describe"
    /\ Len(answered) = 2

(***************************************************************************)
(* C12 as stated: a caller whose response has not arrived stays blocked,   *)
(* also when the worker panicked on its request: it never returns and it   *)
(* never ends the process.                                                 *)
(***************************************************************************)
C12_BlockedUntilResponseArrives ==
    [][(repl.pc = "waiting" /\ chan[repl.id].tx # "sent")
          => (repl'.pc = "waiting" /\ process' # "exit: receive failed")]_vars

(***************************************************************************)
(* C12 amended: while the sender of its one-shot channel is held (the      *)
(* request is queued, executing or stuck) the caller stays blocked, with   *)
(* no timeout and no cancellation; it never returns without a response;    *)
(* a worker that panicked leaves no caller blocked on a held sender, and   *)
(* the caller whose sender was dropped ends the process (receive failed),  *)
(* which happens in no other case.                                         *)
(***************************************************************************)
C12_BlockedUntilResponseOrDrop ==
    /\ [][(repl.pc = "waiting" /\ chan[repl.id].tx = "held")
             => (repl' = repl /\ process' # "exit: receive failed")]_vars
    /\ [][(repl.pc = "waiting" /\ chan[repl.id].tx = "dropped") => repl' = repl]_vars
    /\ [](worker.pc = "dead" /\ repl.pc = "waiting" => chan[repl.id].tx # "held")
    /\ [][(process = "running" /\ process' = "exit: receive failed")
             => (repl.pc = "waiting" /\ chan[repl.id].tx = "dropped" /\ worker.pc = "dead")]_vars

\* the worker panicked on the caller's request and the caller ended the process
C12_Witness ==
    /\ process = "exit: receive failed"
    /\ worker.pc = "dead"
    /\ repl.pc = "waiting"
    /\ repl.command.op \in {"connect", "describe"}

(***************************************************************************)
(* Reading a connection string the way the claim does: by its suffixes.    *)
(***************************************************************************)
DataTypeNames == {"csv"} \cup JsonTypes

DataSuffix(type, compression) ==
    "." \o type \o (IF compression = "" THEN "" ELSE "." \o compression)

\* s is a local path to a file of the given type under the given compression
LocalDataFile(s, type, compression) ==
    /\ ~starts_with(s, "postgres://")
    /\ ~ends_with(s, ".parquet")
    /\ ends_with(s, DataSuffix(type, compression))

SupportedDescriptor(s) ==
    \/ starts_with(s, "postgres://")
    \/ ends_with(s, ".parquet")
    \/ \E type \in DataTypeNames, compression \in CompressionNames \cup {""} :
          LocalDataFile(s, type, compression)

FormatOf(type) == IF type = "csv" THEN "Csv" ELSE "Json"

CodecOf(compression) ==
    IF compression = "" THEN "UNCOMPRESSED" ELSE FileCompressionType(compression)

\* the connect line has been handled
ConnectHandled == repl.last # NoText \/ nextId > 1

\* the connect line was refused: an error is shown, nothing was sent
ConnectRefused ==
    /\ nextId = 1
    /\ queue = <<>>
    /\ repl.pc = "prompt"
    /\ repl.last.kind = "error"

(***************************************************************************)
(* C13: a connection string that is not supported (no postgres:// prefix,  *)
(* no .parquet suffix, no csv/json/ndjson/jsonl type with an optional      *)
(* gz/bz2/xz/zstd suffix) is refused with an error when parsed: no connect *)
(* request is sent and no relation is ever registered under the name; and  *)
(* every local path to a csv/json/ndjson/jsonl file, compressed or not, is *)
(* accepted: the connect request carries the matching format and codec.    *)
(***************************************************************************)
C13_UnsupportedRefusedDataFilesAccepted ==
    /\ ~SupportedDescriptor(input) =>
          /\ ~session[TableNameSeq[1]].some
          /\ ConnectHandled => ConnectRefused
    /\ \A type \in DataTypeNames, compression \in CompressionNames \cup {""} :
          (ConnectHandled /\ LocalDataFile(input, type, compression)) =>
              /\ submitted = <<1>>
              /\ repl.command =
                     ConnectOpts(FileConn(FormatOf(type),
                                          FileOpts(input, type, CodecOf(compression))),
                                 TableNameSeq[1])

(***************************************************************************)
(* Reading a connect request.                                              *)
(***************************************************************************)
\* the source the descriptor names can be reached: the file exists, or the
\* descriptor names a database
SourceReachable(conn) == conn.kind = "Postgres" \/ conn.path \in Files

\* the worker ends the execution of the request in hand in this step
ExecutionEnds ==
    /\ process = "running"
    /\ worker.pc = "exec"
    /\ <<worker, process>>' # <<worker, process>>

Connected(name) == Text("Connected to dataset", name, NoTable)

(***************************************************************************)
(* C14: a connect with an accepted descriptor of any kind (Parquet, Csv,   *)
(* Json or a postgres:// connection string) whose source can be reached,   *)
(* under a name n that is free, registers a relation under n and answers   *)
(* "Connected to dataset n" to the caller waiting for it.                  *)
(***************************************************************************)
C14_ConnectRegistersEveryKind ==
    [][(/\ ExecutionEnds
        /\ worker.msg.command.op = "connect"
        /\ SourceReachable(worker.msg.command.conn)
        /\ ~session[worker.msg.command.name].some)
          => /\ session'[worker.msg.command.name].some
             /\ chan[worker.msg.id].rx = "held" =>
                   /\ chan'[worker.msg.id].tx = "sent"
                   /\ chan'[worker.msg.id].data = Connected(worker.msg.command.name)]_vars

(***************************************************************************)
(* C15: for every method, when no column of the dataset passes the         *)
(* method's filter, the method's result is obtained without the engine:    *)
(* aggregate is never called with an empty list of expressions, so no      *)
(* describe ends with the engine's "no aggregate expression" error and the *)
(* method yields a result.                                                 *)
(***************************************************************************)
\* the columns of the normalized frame that method k aggregates
AppliesTo(k) ==
    {i \in 1..Len(transformed(input).fields) :
        methods[k].kind \in {"NullTotal", "Percentile"}
            \/ describe_method_filter(transformed(input).fields[i])}

C15_EmptySubsetNeverReachesEngine ==
    output.status # "pending" =>
        /\ output.err # NoAggregateExpr
        /\ \A k \in 1..Len(methods) :
              AppliesTo(k) = {} => stat(methods[k], transformed(input), FALSE).status = "ok"

(***************************************************************************)
(* C16: in the summary table the cell in the row labelled with a method    *)
(* and under a column's name is that method's statistic of that column's   *)
(* normalized values, for every method and every column.                   *)
(***************************************************************************)
\* the statistic of method m over one normalized column
StatisticOf(m, column) ==
    CASE m.kind = "Total"      -> count(column)
      [] m.kind = "NullTotal"  -> sum_case_is_null(column)
      [] m.kind = "Mean"       -> avg(column)
      [] m.kind = "Stddev"     -> stddev(column)
      [] m.kind = "Min"        -> min(column)
      [] m.kind = "Max"        -> max(column)
      [] m.kind = "Median"     -> median(column)
      [] m.kind = "Percentile" -> approx_percentile_cont(column, m.p)

NormalizedTypeOf(dt) ==
    IF is_temporal(dt) THEN "Float64"
    ELSE IF is_numeric(dt) THEN dt
    ELSE IF dt \in {"List", "LargeList"} THEN "UInt64"
    ELSE "Int32"

C17_NormalizationIsTotal ==
    (output.status # "pending" /\ fault.stage # "select") =>
        /\ try_new(input, fault).status = "ok"
        /\ try_new(input, fault).value.fields =
              [i \in ColumnIndexes |->
                  Field(input.fields[i].name, NormalizedTypeOf(input.fields[i].data_type))]
        /\ Len(try_new(input, fault).value.columns) = Len(input.columns)

\* a describer was built for a list column next to a column of another type
C17_Witness ==
    /\ output.status # "pending"
    /\ fault.stage # "select"
    /\ Len(input.fields) = 2
    /\ input.fields[1].data_type = "List"
    /\ input.fields[2].data_type \in {"Boolean", "Binary"}
    /\ try_new(input, fault).status = "ok"

(***************************************************************************)
(* C18: cast_down, deciding from the original declared types, casts every  *)
(* column whose original type is temporal back to that type and every      *)
(* column whose original type is a list to Int32, and passes every other   *)
(* column, the leading describe column included, through unchanged; it     *)
(* keeps the column names, the column order and the number of rows.        *)
(***************************************************************************)
\* the frame do_describe hands to cast_down
Assembled == do_describe(transformed(input), fault).value

RowSet(table) == {table.rows[r] : r \in 1..Len(table.rows)}

\* what cast_down may change between the frame it is given and its result
RecastOnly(before, after) ==
    /\ Names(after.fields) = Names(before.fields)
    /\ Len(after.rows) = Len(before.rows)
    /\ RowSet(after) = RowSet(before)
    /\ after.fields[1] = before.fields[1]
    /\ \A i \in ColumnIndexes :
          after.fields[i + 1].data_type =
              IF is_temporal(input.fields[i].data_type) THEN input.fields[i].data_type
              ELSE IF input.fields[i].data_type \in {"List", "LargeList"} THEN "Int32"
              ELSE before.fields[i + 1].data_type

C18_CastDownRecastsTemporalAndList == Returned => RecastOnly(Assembled, SummaryTable)

\* a summary of a temporal column and a list column
TemporalAndListRecast(before) ==
    /\ before.fields[2].data_type # input.fields[1].data_type
    /\ before.fields[3].data_type # "Int32"

C18_Witness ==
    /\ Returned
    /\ Len(input.fields) = 2
    /\ is_temporal(input.fields[1].data_type)
    /\ input.fields[2].data_type = "List"
    /\ TemporalAndListRecast(Assembled)

(***************************************************************************)
(* C19: the filter of total, mean, stddev, min, max and median tests the   *)
(* type of the normalized column, which is numeric under every rule; so    *)
(* for a dataset with at least one column each of the 12 aggregate queries *)
(* holds exactly one expression per column of the dataset, in order, and   *)
(* no cell of a returned summary table is the placeholder "null".          *)
(***************************************************************************)
\* one aggregate expression per dataset column in the query of method m
OnePerColumn(query) ==
    /\ query.status = "ok"
    /\ Names(query.value.fields) = Names(input.fields)
    /\ Len(query.value.rows) = 1

NoPlaceholder(table) ==
    \A r \in 1..Len(table.rows), i \in ColumnIndexes : table.rows[r][i + 1] # NullPlaceholder

C19_EveryColumnInEveryStatistic ==
    (output.status # "pending" /\ Len(input.fields) >= 1) =>
        /\ \A i \in ColumnIndexes : describe_method_filter(transformed(input).fields[i])
        /\ \A k \in 1..Len(methods) : OnePerColumn(stat(methods[k], transformed(input), FALSE))
        /\ Returned => NoPlaceholder(SummaryTable)

\* a summary of a text column and a boolean column
C19_Witness ==
    /\ Returned
    /\ Len(input.fields) = 2
    /\ input.fields[1].data_type = "Utf8"
    /\ input.fields[2].data_type = "Boolean"
    /\ Len(SummaryTable.rows) = Len(methods)

(***************************************************************************)
(* C20: under fair scheduling, a caller blocked in ReplContext::send on a  *)
(* request whose execution ends (with a result, an error or a panic) is    *)
(* eventually given its response, or the process exits: no caller stays    *)
(* blocked forever.                                                        *)
(***************************************************************************)
C20_CallerReleasedOrProcessExits ==
    \A id \in Ids :
        (repl.pc = "waiting" /\ repl.id = id)
            ~> ((repl.pc = "prompt" /\ chan[id].rx = "done") \/ process # "running")

\* the caller was answered although its request waited behind a client's
C20_Witness ==
    /\ repl.pc = "prompt"
    /\ Len(answered) = 2
    /\ chan[1].holder = "client"
    /\ chan[2].holder = "repl"
    /\ chan[2].rx = "done"

(***************************************************************************)
(* C21: with the REPL as the only caller, at most one request is           *)
(* outstanding at any time: the queue never holds more than one message,   *)
(* at most one submitted request is without its response received, and the *)
(* REPL submits a request only when every earlier one has been answered    *)
(* and its response received.                                              *)
(***************************************************************************)
Outstanding == {i \in 1..Len(submitted) : chan[submitted[i]].rx # "done"}

Submits == submitted' # submitted

C21_AtMostOneOutstanding ==
    /\ [](Len(queue) <= 1 /\ Cardinality(Outstanding) <= 1)
    /\ [][Submits => Outstanding = {} /\ queue = <<>> /\ worker.pc = "recv"]_vars

\* the REPL has submitted its third command, the two before it answered
C21_Witness ==
    /\ Len(submitted) = 3
    /\ Len(queue) = 1
    /\ Len(answered) = 2
    /\ repl.pc = "waiting"
    /\ \A i \in Ids : chan[i].holder = "repl"

====
